---- MODULE Spec2Model ----
(***************************************************************************)
(* Model of the auth service in src/main.py: one table `users`, the HTTP   *)
(* handlers register, verify, create_checkout, cancel_subscription,        *)
(* webhook, admin_stats and health, and the payment processor (Stripe) as  *)
(* an environment whose answers are inputs of the handlers.                *)
(*                                                                         *)
(* Each handler is an operator from the table and the request's inputs to  *)
(* the new table and the response; one action per handler applies it.     *)
(* A handler that touches the table in one statement is one step.  A       *)
(* handler that calls the payment processor (register, verify of an        *)
(* account with a subscription, create_checkout, cancel_subscription)      *)
(* waits for the answer with no lock held, while other threads and the     *)
(* clock go on.                                                            *)
(*                                                                         *)
(* Such a request is served in one step when nothing happens during the    *)
(* wait, and in two when it is held: the first step runs the handler up    *)
(* to the call, the second from the call's return to the answer.           *)
(* inflight keeps the held requests, at most MaxHeld, each with the        *)
(* locals of its handler: the email, the token and the expiry of a         *)
(* register, the key and the row read of the others.  The processor's      *)
(* answer is an input of the step that resumes the handler: it depends on  *)
(* nothing in the table.                                                   *)
(*                                                                         *)
(* Time is in whole seconds.  The state is the table, the clock and the    *)
(* held requests.  A response is the value of the handler's operator on    *)
(* the state its request is answered in: the properties speak of every     *)
(* request that can be answered in a reachable state, a new one or a held  *)
(* one, and of the table and the response its handler yields.              *)
(*                                                                         *)
(* SpecRedeliver delivers authentic webhook events and keeps in seen one   *)
(* delivered event and how often it was delivered.                         *)
(***************************************************************************)
EXTENDS Integers, FiniteSets, Sequences, TLC

VARIABLES users, now, inflight, seen

vars == <<users, now, inflight, seen>>

\* ---------------------------------------------------------------- bounds
MaxTicks == 1             \* steps of the clock
MaxHeld == 1              \* requests held in a call to the payment processor
MaxDeliveries == 1        \* deliveries counted of the remembered event

\* ------------------------------------------------------------- constants
TrialSeconds == 604800    \* timedelta(days=7), when the UTC offset stays as it is
HourSeconds == 3600
\* datetime.now() advances by the longest trial week: at the next instant an
\* expiry computed at this one has passed, or is reached when the week was an
\* hour longer
TickStep == TrialSeconds + HourSeconds
ProWorkers == 8
FreeWorkers == 1
DefaultWorkers == 1       \* max_workers INTEGER DEFAULT 1

NULL == "NULL"            \* SQL NULL / Python None
None == "None"            \* a key absent from a JSON body
DefaultPlan == "trial"    \* plan TEXT DEFAULT 'trial'

Emails == {"a@x", "b@x"}
EmailInputs == Emails \cup {""}          \* "" : email missing or empty
Keys == {"mk_1", "mk_2"}          \* values of mk_ + token_urlsafe(32)
KeyInputs == Keys \cup {""}               \* "" : header missing or empty
\* the ids Customer.create returns, in the order it issues them
CustomerIds == <<"cus_1", "cus_2", "cus_3">>
SubIds == {"sub_1", "sub_2"}
Statuses == {"active", "past_due", "canceled", "unpaid"}
StripeError == "StripeError"
\* datetime.now() is naive local time: 7 wall-clock days are an hour longer or
\* shorter when the server's UTC offset changes within them
DstShifts == {0 - HourSeconds, 0, HourSeconds}
EventTypes == {"checkout.session.completed", "customer.subscription.updated",
               "customer.subscription.deleted", "invoice.paid"}

\* ------------------------------------------------------------- responses
NoResp ==
  [status |-> 0, valid |-> None, error |-> None, api_key |-> None,
   plan |-> None, max_workers |-> 0, email |-> None, trial_ends |-> 0,
   flag |-> None, body |-> None]

\* a request held in a call to the payment processor: its handler, the key
\* of its header and the rows its SELECT returned
Flight(pc, api_key, rows) ==
  [pc |-> pc, email |-> None, api_key |-> api_key, rows |-> rows, expires |-> 0]

\* a register held in Customer.create: the email of its body, the api_key of
\* line 58 and the expiry of line 59
RegisterFlight(email, api_key, expires) ==
  [pc |-> "register", email |-> email, api_key |-> api_key, rows |-> {},
   expires |-> expires]

\* no webhook event remembered
NoEvent == [type |-> None, api_key |-> None, sub |-> None, status |-> None]
NoneSeen == [event |-> NoEvent, n |-> 0]

ErrorResp(code, msg) == [NoResp EXCEPT !.status = code, !.error = msg]

\* an exception no handler catches: Flask answers 500 Internal Server Error
Unhandled(exc) == [NoResp EXCEPT !.status = 500, !.body = exc]

\* ----------------------------------------------------------------- table
init_db == {}

RowsByEmail(u, email) == {r \in u : r.email = email}
RowsByKey(u, api_key) == {r \in u : r.api_key = api_key}

\* fetchone(): None when no row matches (NoRow), else a matching row
NoRow(rows) == rows = {}
FetchOne(rows) == CHOOSE r \in rows : TRUE

\* mutant: api_key is not declared UNIQUE
IntegrityError_email_only(u, email, api_key) == RowsByEmail(u, email) # {}

\* email TEXT PRIMARY KEY, api_key TEXT UNIQUE
IntegrityError(u, email, api_key) ==
  RowsByEmail(u, email) # {} \/ RowsByKey(u, api_key) # {}

NewRow(email, api_key, customer, expires, t) ==
  [email |-> email, api_key |-> api_key, stripe_customer_id |-> customer,
   stripe_subscription_id |-> NULL, plan |-> DefaultPlan,
   expires_at |-> expires, max_workers |-> DefaultWorkers, created_at |-> t]

\* UPDATE users SET plan = ?, max_workers = ? WHERE api_key = ?
UpdatePlanByKey(u, api_key, plan, workers) ==
  {IF r.api_key = api_key
     THEN [r EXCEPT !.plan = plan, !.max_workers = workers] ELSE r : r \in u}

\* mutant: the UPDATE sets the plan and forgets max_workers
UpdatePlanBySub_plan_only(u, sub, plan, workers) ==
  {IF r.stripe_subscription_id = sub THEN [r EXCEPT !.plan = plan] ELSE r : r \in u}

\* UPDATE users SET plan = ?, max_workers = ? WHERE stripe_subscription_id = ?
UpdatePlanBySub(u, sub, plan, workers) ==
  {IF r.stripe_subscription_id = sub
     THEN [r EXCEPT !.plan = plan, !.max_workers = workers] ELSE r : r \in u}

\* ---------------------------------------------------------------- health
health(u) == [users |-> u, resp |-> [NoResp EXCEPT !.status = 200, !.body = "healthy"]]

\* -------------------------------------------------------------- register
\* line 59: the timestamp of local time t plus 7 days; shift is the change of
\* the UTC offset within these days
TrialEnds(t, shift) == t + TrialSeconds + shift

\* mutant: the existing account is linked to the customer just created
register_relinks_customer(u, email, token, customer, expires, t) ==
  LET found == RowsByEmail(u, email)
      user == FetchOne(found)
  IN IF email = ""
       THEN [users |-> u, resp |-> ErrorResp(400, "Email required")]
     ELSE IF customer = StripeError
       THEN [users |-> u, resp |-> Unhandled("TypeError")]
     ELSE IF ~IntegrityError(u, email, token)
       THEN [users |-> u \cup {NewRow(email, token, customer, expires, t)},
             resp |-> [NoResp EXCEPT !.status = 200, !.api_key = token,
                                     !.plan = "trial", !.trial_ends = expires]]
     ELSE IF ~NoRow(found)
       THEN [users |-> {IF r.email = email
                          THEN [r EXCEPT !.stripe_customer_id = customer]
                          ELSE r : r \in u},
             resp |-> [NoResp EXCEPT !.status = 200, !.api_key = user.api_key,
                                     !.plan = user.plan, !.flag = "existing_user"]]
     ELSE [users |-> u, resp |-> Unhandled("TypeError")]

\* token: the generated api_key; customer: the id Stripe returns, or
\* StripeError when Customer.create raises; expires: the value line 59
\* computed before the call; t: the clock when the INSERT runs (created_at).
register(u, email, token, customer, expires, t) ==
  LET found == RowsByEmail(u, email)
      user == FetchOne(found)
  IN IF email = ""
       THEN [users |-> u, resp |-> ErrorResp(400, "Email required")]
     ELSE IF customer = StripeError
       \* 'Payment processor error ' + e raises TypeError in the handler
       THEN [users |-> u, resp |-> Unhandled("TypeError")]
     ELSE IF ~IntegrityError(u, email, token)
       THEN [users |-> u \cup {NewRow(email, token, customer, expires, t)},
             resp |-> [NoResp EXCEPT !.status = 200, !.api_key = token,
                                     !.plan = "trial", !.trial_ends = expires]]
     ELSE IF ~NoRow(found)
       THEN [users |-> u,
             resp |-> [NoResp EXCEPT !.status = 200, !.api_key = user.api_key,
                                     !.plan = user.plan, !.flag = "existing_user"]]
     \* the token collided with another account's key: user is None, user[0] raises
     ELSE [users |-> u, resp |-> Unhandled("TypeError")]

\* ---------------------------------------------------------------- verify
\* SELECT email, plan, expires_at, max_workers, stripe_subscription_id
VerifyColumns(r) ==
  [email |-> r.email, plan |-> r.plan, expires_at |-> r.expires_at,
   max_workers |-> r.max_workers, stripe_subscription_id |-> r.stripe_subscription_id]

\* mutant: the WHERE clause is lost, every row matches
verify_lookup_no_where(u, api_key) ==
  IF api_key = "" THEN {} ELSE {VerifyColumns(r) : r \in u}

\* lines 102-112: no SELECT runs without a key
verify_lookup(u, api_key) ==
  IF api_key = "" THEN {} ELSE {VerifyColumns(r) : r \in RowsByKey(u, api_key)}

\* the subscription status is queried only for an account with a subscription
StripeQueried(found) ==
  ~NoRow(found) /\ FetchOne(found).stripe_subscription_id # NULL

\* mutant: the downgrade keeps the worker limit
verify_downgrade_keeps_workers(u, api_key) ==
  {IF r.api_key = api_key THEN [r EXCEPT !.plan = "free"] ELSE r : r \in u}

verify_downgrade(u, api_key) == UpdatePlanByKey(u, api_key, "free", FreeWorkers)

\* mutant: the comparison is reversed
TrialExpired_reversed(user, t) == user.plan = "trial" /\ user.expires_at > t

TrialExpired(user, t) == user.plan = "trial" /\ user.expires_at < t

\* the response built from the row read at the start (lines 141-155)
verify_cached(user, t) ==
  IF TrialExpired(user, t)
    THEN [NoResp EXCEPT !.status = 200, !.valid = "true", !.plan = "trial_expired",
                        !.max_workers = 1, !.flag = "trial_expired"]
    ELSE [NoResp EXCEPT !.status = 200, !.valid = "true", !.plan = user.plan,
                        !.max_workers = user.max_workers, !.email = user.email]

\* lines 120-123 and 138: downgrade when the account has a subscription, the
\* status query returned, and the status is not active.  A StripeError is
\* swallowed and the cached row is used.
ShouldDowngrade_fail_closed(user, sr) ==
  user.stripe_subscription_id # NULL /\ sr # "active"

ShouldDowngrade(user, sr) ==
  user.stripe_subscription_id # NULL /\ sr # StripeError /\ sr # "active"

\* the response after the downgrade (lines 132-137)
verify_downgraded ==
  [NoResp EXCEPT !.status = 200, !.valid = "true", !.plan = "free",
                 !.max_workers = 1, !.flag = "subscription_expired"]

\* mutant: an expired trial is written to the table as trial_expired
verify_stores_expiry(u, api_key, found, sr, t) ==
  LET user == FetchOne(found)
  IN IF api_key = ""
       THEN [users |-> u,
             resp |-> [ErrorResp(401, "No API key provided") EXCEPT !.valid = "false"]]
     ELSE IF NoRow(found)
       THEN [users |-> u,
             resp |-> [ErrorResp(401, "Invalid API key") EXCEPT !.valid = "false"]]
     ELSE IF ShouldDowngrade(user, sr)
       THEN [users |-> verify_downgrade(u, api_key),
             resp |-> verify_downgraded]
     ELSE [users |-> IF TrialExpired(user, t)
                       THEN UpdatePlanByKey(u, api_key, "trial_expired", FreeWorkers)
                       ELSE u,
           resp |-> verify_cached(user, t)]

\* found: what the SELECT of lines 107-112 returned; sr: the status
\* Subscription.retrieve reports, or StripeError when it raises; u and t: the
\* table and the clock after the call, when the UPDATE or the trial check runs
verify(u, api_key, found, sr, t) ==
  LET user == FetchOne(found)
  IN IF api_key = ""
       THEN [users |-> u,
             resp |-> [ErrorResp(401, "No API key provided") EXCEPT !.valid = "false"]]
     ELSE IF NoRow(found)
       THEN [users |-> u,
             resp |-> [ErrorResp(401, "Invalid API key") EXCEPT !.valid = "false"]]
     ELSE IF ShouldDowngrade(user, sr)
       THEN [users |-> verify_downgrade(u, api_key),
             resp |-> verify_downgraded]
     ELSE [users |-> u, resp |-> verify_cached(user, t)]

\* ------------------------------------------------------- create_checkout
\* lines 165-170: SELECT email, stripe_customer_id; no SELECT runs without a key
checkout_lookup(u, api_key) ==
  IF api_key = "" THEN {}
  ELSE {[email |-> r.email, stripe_customer_id |-> r.stripe_customer_id] :
          r \in RowsByKey(u, api_key)}

\* found: what the SELECT returned; sr: "ok" when Session.create returns,
\* StripeError when it raises; u: the table when the handler answers
create_checkout(u, api_key, found, sr) ==
  IF api_key = ""
    THEN [users |-> u, resp |-> ErrorResp(401, "Authentication required")]
  ELSE IF NoRow(found)
    THEN [users |-> u, resp |-> ErrorResp(401, "Invalid API key")]
  ELSE IF sr = StripeError
    THEN [users |-> u, resp |-> ErrorResp(500, "StripeError")]
  ELSE [users |-> u, resp |-> [NoResp EXCEPT !.status = 200, !.body = "url"]]

\* --------------------------------------------------- cancel_subscription
\* lines 206-211: SELECT stripe_subscription_id; no SELECT runs without a key
cancel_lookup(u, api_key) ==
  IF api_key = "" THEN {}
  ELSE {[stripe_subscription_id |-> r.stripe_subscription_id] :
          r \in RowsByKey(u, api_key)}

\* lines 213-219: Subscription.modify is called for a subscription id read
CancelQueried(found) ==
  ~NoRow(found) /\ FetchOne(found).stripe_subscription_id # NULL

\* mutant: a successful cancel downgrades the account at once
cancel_subscription_downgrades(u, api_key, found, sr) ==
  IF api_key = ""
    THEN [users |-> u, resp |-> ErrorResp(401, "Authentication required")]
  ELSE IF ~CancelQueried(found)
    THEN [users |-> u, resp |-> ErrorResp(400, "No active subscription")]
  ELSE IF sr = StripeError
    THEN [users |-> u, resp |-> ErrorResp(500, "StripeError")]
  ELSE [users |-> UpdatePlanByKey(u, api_key, "free", FreeWorkers),
        resp |-> [NoResp EXCEPT !.status = 200, !.body = "success"]]

\* found: what the SELECT returned; sr: "ok" when Subscription.modify
\* returns, StripeError when it raises; u: the table when the handler answers
cancel_subscription(u, api_key, found, sr) ==
  IF api_key = ""
    THEN [users |-> u, resp |-> ErrorResp(401, "Authentication required")]
  ELSE IF ~CancelQueried(found)
    THEN [users |-> u, resp |-> ErrorResp(400, "No active subscription")]
  ELSE IF sr = StripeError
    THEN [users |-> u, resp |-> ErrorResp(500, "StripeError")]
  ELSE [users |-> u, resp |-> [NoResp EXCEPT !.status = 200, !.body = "success"]]

\* --------------------------------------------------------------- webhook
\* mutant: the subscription id is not stored
webhook_checkout_no_sub(u, api_key, sub) ==
  IF api_key # ""
    THEN UpdatePlanByKey(u, api_key, "pro", ProWorkers)
    ELSE u

\* checkout.session.completed (lines 247-259)
webhook_checkout(u, api_key, sub) ==
  IF api_key # ""
    THEN {IF r.api_key = api_key
            THEN [r EXCEPT !.plan = "pro", !.max_workers = ProWorkers,
                           !.stripe_subscription_id = sub]
            ELSE r : r \in u}
    ELSE u

\* mutant: unpaid is missing from the downgrade list
webhook_updated_canceled_only(u, sub, status) ==
  IF status = "active"
    THEN UpdatePlanBySub(u, sub, "pro", ProWorkers)
  ELSE IF status \in {"canceled"}
    THEN UpdatePlanBySub(u, sub, "free", FreeWorkers)
  ELSE u

\* customer.subscription.updated (lines 262-282)
webhook_updated(u, sub, status) ==
  IF status = "active"
    THEN UpdatePlanBySub(u, sub, "pro", ProWorkers)
  ELSE IF status \in {"canceled", "unpaid"}
    THEN UpdatePlanBySub(u, sub, "free", FreeWorkers)
  ELSE u

\* mutant: the subscription id is not cleared
webhook_deleted_keeps_sub(u, sub) == UpdatePlanBySub(u, sub, "free", FreeWorkers)

\* customer.subscription.deleted (lines 285-295)
webhook_deleted(u, sub) ==
  {IF r.stripe_subscription_id = sub
     THEN [r EXCEPT !.plan = "free", !.max_workers = FreeWorkers,
                    !.stripe_subscription_id = NULL]
     ELSE r : r \in u}

\* lines 244-297: the update an authentic event makes
webhook_apply(u, type, api_key, sub, status) ==
  IF type = "checkout.session.completed"
    THEN webhook_checkout(u, api_key, sub)
  ELSE IF type = "customer.subscription.updated"
    THEN webhook_updated(u, sub, status)
  ELSE IF type = "customer.subscription.deleted"
    THEN webhook_deleted(u, sub)
  ELSE u

\* mutant: the event is applied before its signature is checked
webhook_apply_first(u, sig, type, api_key, sub, status) ==
  [users |-> webhook_apply(u, type, api_key, sub, status),
   resp |-> IF ~sig THEN ErrorResp(400, "Invalid signature")
            ELSE [NoResp EXCEPT !.status = 200, !.body = "received"]]

\* sig: whether construct_event accepts the payload and its signature
webhook(u, sig, type, api_key, sub, status) ==
  IF ~sig
    THEN [users |-> u, resp |-> ErrorResp(400, "Invalid signature")]
  ELSE [users |-> webhook_apply(u, type, api_key, sub, status),
        resp |-> [NoResp EXCEPT !.status = 200, !.body = "received"]]

\* ----------------------------------------------------------- admin_stats
\* SUM(CASE WHEN plan = ? THEN 1 ELSE 0 END): NULL over a table without rows
CountPlan(u, plan) ==
  IF u = {} THEN NULL ELSE Cardinality({r \in u : r.plan = plan})

admin_stats(u) ==
  [users |-> u,
   resp |-> [NoResp EXCEPT !.status = 200,
               !.body = <<Cardinality(u), CountPlan(u, "trial"),
                          CountPlan(u, "pro"), CountPlan(u, "free")>>]]

\* =============================================================== actions
Init ==
  /\ users = init_db
  /\ now = 0
  /\ inflight = <<>>
  /\ seen = NoneSeen

\* the step that answers a request whose handler yields out
Apply(out) ==
  /\ users' = out.users
  /\ UNCHANGED <<now, inflight, seen>>

Tick ==
  /\ now < MaxTicks * TickStep
  /\ now' = now + TickStep
  /\ UNCHANGED <<users, inflight, seen>>

Health == Apply(health(users))

\* ------------------------------------------------------------ held requests
\* register, verify, create_checkout and cancel_subscription run up to their
\* call of the payment processor and wait for it with no lock held.  A
\* request is either served with no other step during the wait, or held:
\* inflight keeps the locals of the handler, other steps follow, and the
\* Return step runs the rest of the handler on the table and the clock it
\* then finds.  The answer of the processor depends on nothing in the table
\* and is an input of the step that uses it.
Hold(flight) ==
  /\ Len(inflight) < MaxHeld
  /\ inflight' = Append(inflight, flight)
  /\ UNCHANGED <<users, now, seen>>

RemoveAt(s, i) == SubSeq(s, 1, i - 1) \o SubSeq(s, i + 1, Len(s))

\* the requests held by handler pc
Held(pc) == {i \in DOMAIN inflight : inflight[i].pc = pc}

Return(i, out) ==
  /\ users' = out.users
  /\ inflight' = RemoveAt(inflight, i)
  /\ UNCHANGED <<now, seen>>

\* -------------------------------------------------------------- register
\* the instants of the clock
Clocks == {k * TickStep : k \in 0..MaxTicks}

\* line 59 at the clock of now, with any change of the UTC offset
RegisterExpiries == {TrialEnds(now, shift) : shift \in DstShifts}

\* Customer.create returns an id it has not returned before, so one that no
\* account stores.  The ids are opaque: the handlers store them and pass them
\* back, and compare them with nothing.  The new id is therefore named by the
\* first of CustomerIds that no account stores.
Stored(u) == {r.stripe_customer_id : r \in u}
NewCustomer(u) ==
  CustomerIds[CHOOSE i \in DOMAIN CustomerIds :
                /\ CustomerIds[i] \notin Stored(u)
                /\ \A j \in 1..(i - 1) : CustomerIds[j] \in Stored(u)]

\* a register request with the email of its body, the token line 58 generates,
\* the answer of Customer.create and the expiry line 59 computes
RegisterCall(email, token, customer, expires) ==
  [email |-> email, token |-> token, customer |-> customer, expires |-> expires]

\* the inputs register uses on its path: none but the email when it is
\* missing, neither token nor expiry when Customer.create raises
RegisterNoEmail == {RegisterCall("", None, None, 0)}
RegisterFailed(email) == {RegisterCall(email, None, StripeError, 0)}
RegisterCreated(email) ==
  {RegisterCall(email, token, NewCustomer(users), expires) :
     token \in Keys, expires \in RegisterExpiries}

RegisterRequests(email) ==
  IF email = "" THEN RegisterNoEmail ELSE RegisterCreated(email) \cup RegisterFailed(email)

\* the register requests that arrive now and are served with no step during
\* Customer.create
RegisterArrivals == UNION {RegisterRequests(email) : email \in EmailInputs}

\* a held register request with the answers Customer.create can give it
RegisterHeld(flight) ==
  {RegisterCall(flight.email, flight.api_key, NewCustomer(users), flight.expires)}
    \cup RegisterFailed(flight.email)

RegisterResumed == UNION {RegisterHeld(inflight[i]) : i \in Held("register")}

\* the INSERT runs on the table and at the clock of the step that answers
RegisterOut(c) == register(users, c.email, c.token, c.customer, c.expires, now)

\* lines 51-97 with no step during Customer.create, or lines 51-61 of a
\* request then held in Customer.create (line 64) with its email, the api_key
\* of line 58 and the expiry of line 59
Register ==
  \/ \E c \in RegisterArrivals : Apply(RegisterOut(c))
  \/ \E email \in Emails, token \in Keys, expires \in RegisterExpiries :
       Hold(RegisterFlight(email, token, expires))

\* lines 64-97: Customer.create answers a held request; the INSERT stores the
\* api_key and the expiry computed before the call, and the clock of now as
\* created_at
RegisterReturn ==
  \E i \in Held("register") : \E c \in RegisterHeld(inflight[i]) : Return(i, RegisterOut(c))

\* ---------------------------------------- requests that carry an api_key
\* a request with the key of its header, the rows its SELECT returned and the
\* answer of the payment processor (None when the handler does not call it)
KeyCall(api_key, found, sr) == [api_key |-> api_key, found |-> found, stripe |-> sr]

\* ---------------------------------------------------------------- verify
VerifyAnswers(found) ==
  IF StripeQueried(found) THEN Statuses \cup {StripeError} ELSE {None}

\* the verify requests that arrive now and are served with no step during
\* Subscription.retrieve
VerifyArrivals ==
  UNION {{KeyCall(api_key, verify_lookup(users, api_key), sr) :
            sr \in VerifyAnswers(verify_lookup(users, api_key))} : api_key \in KeyInputs}

\* a held verify request with the answers Subscription.retrieve can give it
VerifyHeld(flight) ==
  {KeyCall(flight.api_key, flight.rows, sr) : sr \in Statuses \cup {StripeError}}

VerifyResumed == UNION {VerifyHeld(inflight[i]) : i \in Held("verify")}

\* the UPDATE and the trial check run on the table and at the clock of the
\* step that answers
VerifyOut(c) == verify(users, c.api_key, c.found, c.stripe, now)

\* lines 99-155 with no step during Subscription.retrieve, or lines 99-120 of
\* a request then held in Subscription.retrieve (line 122)
Verify ==
  \/ \E c \in VerifyArrivals : Apply(VerifyOut(c))
  \/ \E api_key \in KeyInputs :
       LET found == verify_lookup(users, api_key)
       IN /\ StripeQueried(found)
          /\ Hold(Flight("verify", api_key, found))

\* lines 122-155: Subscription.retrieve answers a held request; the UPDATE
\* runs on a new connection, the response is built from the row read
VerifyReturn ==
  \E i \in Held("verify") : \E c \in VerifyHeld(inflight[i]) : Return(i, VerifyOut(c))

\* ------------------------------------------------------- create_checkout
CheckoutAnswers(found) == IF NoRow(found) THEN {None} ELSE {"ok", StripeError}

CheckoutArrivals ==
  UNION {{KeyCall(api_key, checkout_lookup(users, api_key), sr) :
            sr \in CheckoutAnswers(checkout_lookup(users, api_key))} : api_key \in KeyInputs}

CheckoutHeld(flight) ==
  {KeyCall(flight.api_key, flight.rows, sr) : sr \in {"ok", StripeError}}

CheckoutResumed == UNION {CheckoutHeld(inflight[i]) : i \in Held("create_checkout")}

CheckoutOut(c) == create_checkout(users, c.api_key, c.found, c.stripe)

\* lines 157-198 with no step during Session.create, or lines 157-175 of a
\* request then held in Session.create (line 179)
CreateCheckout ==
  \/ \E c \in CheckoutArrivals : Apply(CheckoutOut(c))
  \/ \E api_key \in KeyInputs :
       LET found == checkout_lookup(users, api_key)
       IN /\ ~NoRow(found)
          /\ Hold(Flight("create_checkout", api_key, found))

\* lines 179-198: Session.create answers a held request
CheckoutReturn ==
  \E i \in Held("create_checkout") :
    \E c \in CheckoutHeld(inflight[i]) : Return(i, CheckoutOut(c))

\* --------------------------------------------------- cancel_subscription
CancelAnswers(found) == IF CancelQueried(found) THEN {"ok", StripeError} ELSE {None}

CancelArrivals ==
  UNION {{KeyCall(api_key, cancel_lookup(users, api_key), sr) :
            sr \in CancelAnswers(cancel_lookup(users, api_key))} : api_key \in KeyInputs}

CancelHeld(flight) ==
  {KeyCall(flight.api_key, flight.rows, sr) : sr \in {"ok", StripeError}}

CancelResumed == UNION {CancelHeld(inflight[i]) : i \in Held("cancel")}

CancelOut(c) == cancel_subscription(users, c.api_key, c.found, c.stripe)

\* lines 200-229 with no step during Subscription.modify, or lines 200-215
\* of a request then held in Subscription.modify (line 219)
CancelSubscription ==
  \/ \E c \in CancelArrivals : Apply(CancelOut(c))
  \/ \E api_key \in KeyInputs :
       LET found == cancel_lookup(users, api_key)
       IN /\ CancelQueried(found)
          /\ Hold(Flight("cancel", api_key, found))

\* lines 219-229: Subscription.modify answers a held request
CancelReturn ==
  \E i \in Held("cancel") : \E c \in CancelHeld(inflight[i]) : Return(i, CancelOut(c))

\* --------------------------------------------------------------- webhook
\* the fields of the payload the handler reads for an event of each type
EventKeys(type) == IF type = "checkout.session.completed" THEN KeyInputs ELSE {None}
EventSubs(type) == IF type = "invoice.paid" THEN {None} ELSE SubIds
EventStatuses(type) == IF type = "customer.subscription.updated" THEN Statuses ELSE {None}

\* the deliveries to the webhook: sig tells whether construct_event accepts
\* the payload and its signature
Deliveries ==
  UNION {[sig : BOOLEAN, type : {type}, api_key : EventKeys(type),
          sub : EventSubs(type), status : EventStatuses(type)] : type \in EventTypes}

WebhookOut(e) == webhook(users, e.sig, e.type, e.api_key, e.sub, e.status)

Webhook == \E e \in Deliveries : Apply(WebhookOut(e))

AdminStats == Apply(admin_stats(users))

Next ==
  \/ Tick
  \/ Health
  \/ Register
  \/ RegisterReturn
  \/ Verify
  \/ VerifyReturn
  \/ CreateCheckout
  \/ CheckoutReturn
  \/ CancelSubscription
  \/ CancelReturn
  \/ Webhook
  \/ AdminStats

Spec == Init /\ [][Next]_vars

\* ------------------------------------------------ redelivery of an event
EventOf(e) == [type |-> e.type, api_key |-> e.api_key, sub |-> e.sub, status |-> e.status]

\* a checkout session carries the api_key that create_checkout put in its
\* metadata (lines 190-192), so the key of an authentic event is an account's
SessionKeys(u) == {""} \cup {r.api_key : r \in u}

\* the events the payment processor sends, with a signature that verifies
Authentic ==
  {e \in Deliveries :
     /\ e.sig
     /\ e.type = "checkout.session.completed" => e.api_key \in SessionKeys(users)}

\* the payment processor delivers an authentic event; one delivered event is
\* remembered, and its deliveries are counted up to MaxDeliveries
Deliver ==
  \E e \in Authentic, remember \in BOOLEAN :
    /\ users' = WebhookOut(e).users
    /\ seen' = IF seen.n = 0
                  THEN IF remember THEN [event |-> EventOf(e), n |-> 1] ELSE seen
                ELSE IF EventOf(e) = seen.event /\ seen.n < MaxDeliveries
                  THEN [seen EXCEPT !.n = @ + 1]
                ELSE seen
    /\ UNCHANGED <<now, inflight>>

RedeliverNext ==
  \/ Register
  \/ RegisterReturn
  \/ Deliver

SpecRedeliver == Init /\ [][RedeliverNext]_vars

TypeOK ==
  /\ now \in Clocks
  /\ \A r \in users :
        /\ r.email \in Emails /\ r.api_key \in Keys
        /\ \E i \in DOMAIN CustomerIds : r.stripe_customer_id = CustomerIds[i]
        /\ r.created_at \in Clocks
  /\ Len(inflight) <= MaxHeld
  /\ \A i \in DOMAIN inflight :
        inflight[i].pc \in {"register", "verify", "create_checkout", "cancel"}
  /\ seen.n \in 0..MaxDeliveries

\* ================================================================ claims
\* The requests that can be answered in a state: those that arrive and are
\* served at once, and the held ones.
RegisterServed == RegisterArrivals \cup RegisterResumed
VerifyServed == VerifyArrivals \cup VerifyResumed
CheckoutServed == CheckoutArrivals \cup CheckoutResumed
CancelServed == CancelArrivals \cup CancelResumed

\* the deliveries whose signature fails, and the authentic events of a type
Rejected == {e \in Deliveries : ~e.sig}
CheckoutCompleted == {e \in Deliveries : e.sig /\ e.type = "checkout.session.completed"}
SubscriptionUpdated == {e \in Deliveries : e.sig /\ e.type = "customer.subscription.updated"}
SubscriptionDeleted == {e \in Deliveries : e.sig /\ e.type = "customer.subscription.deleted"}

Account(u, email) == RowsByEmail(u, email)

\* C1: a webhook request whose signature cannot be verified is answered 400
\* and leaves the table exactly as it was, whatever the payload names.
C1_InvalidSignatureRejected ==
  \A e \in Rejected :
    LET out == WebhookOut(e)
    IN out.resp.status = 400 /\ out.users = users

\* an unverifiable subscription.deleted event naming the subscription of a
\* pro account is answered 400
C1_Witness ==
  \E e \in Rejected :
    /\ e.type = "customer.subscription.deleted"
    /\ \E r \in users : r.stripe_subscription_id = e.sub /\ r.plan = "pro"
    /\ WebhookOut(e).resp.status = 400

\* C2: register with an email that already has an account answers with the
\* stored api_key, creates no account and changes no stored field.
C2_RegisterTwiceSameKey ==
  \A c \in RegisterServed :
    LET out == RegisterOut(c)
    IN Account(users, c.email) # {} =>
         /\ out.resp.status = 200
         /\ \A r \in Account(users, c.email) : out.resp.api_key = r.api_key
         /\ out.users = users

\* C3: verify with an api_key of no account answers 401, valid=false, and
\* changes no account.
C3_UnknownKeyUnauthorized ==
  \A c \in VerifyServed :
    LET out == VerifyOut(c)
    IN RowsByKey(users, c.api_key) = {} =>
         /\ out.resp.status = 401 /\ out.resp.valid = "false"
         /\ out.users = users

\* a well-formed key that no account holds, while another account exists, is
\* answered 401
C3_Witness ==
  \E c \in VerifyServed :
    /\ c.api_key \in Keys
    /\ users # {} /\ RowsByKey(users, c.api_key) = {}
    /\ VerifyOut(c).resp.status = 401

\* C4: verify of a trial account past its expiry reports trial_expired with
\* max_workers 1 and leaves the table (so the stored plan trial) unchanged.
C4_TrialExpiredNotStored ==
  \A c \in VerifyServed :
    LET out == VerifyOut(c)
    IN \A r \in RowsByKey(users, c.api_key) :
         (r.plan = "trial" /\ r.expires_at < now) =>
           /\ out.resp.plan = "trial_expired" /\ out.resp.max_workers = 1
           /\ out.users = users
           /\ \A r2 \in Account(out.users, r.email) : r2.plan = "trial"

\* verify of a trial account whose week of seven full days has passed reports
\* trial_expired, while the other account's trial, an hour longer, ends at
\* this very instant and is reported as trial
C4_Witness ==
  \E c, c2 \in VerifyServed :
    \E r \in RowsByKey(users, c.api_key), r2 \in RowsByKey(users, c2.api_key) :
      /\ r.plan = "trial" /\ r.expires_at = TrialEnds(r.created_at, 0)
      /\ r.expires_at < now
      /\ VerifyOut(c).resp.plan = "trial_expired"
      /\ r2.plan = "trial" /\ r2.expires_at = now
      /\ VerifyOut(c2).resp.plan = "trial"

\* C5: after an authentic customer.subscription.deleted event for S, every
\* account that held S is free with max_workers 1 and no subscription id.
C5_DeletedMakesFree ==
  \A e \in SubscriptionDeleted :
    LET out == WebhookOut(e)
    IN \A r \in users :
         r.stripe_subscription_id = e.sub =>
           /\ Account(out.users, r.email) # {}
           /\ \A r2 \in Account(out.users, r.email) :
                 /\ r2.plan = "free" /\ r2.max_workers = 1
                 /\ r2.stripe_subscription_id = NULL

\* the event reaches a pro account holding S and leaves it free
C5_Witness ==
  \E e \in SubscriptionDeleted :
    \E r \in users :
      /\ r.stripe_subscription_id = e.sub /\ r.plan = "pro"
      /\ \E r2 \in Account(WebhookOut(e).users, r.email) : r2.plan = "free"

\* C6: after an authentic checkout.session.completed event carrying the key
\* of an existing account and subscription S, that account is pro with
\* max_workers 8 and subscription S, and every other account is unchanged.
C6_CheckoutMakesPro ==
  \A e \in CheckoutCompleted :
    LET out == WebhookOut(e)
    IN RowsByKey(users, e.api_key) # {} =>
         /\ RowsByKey(out.users, e.api_key) # {}
         /\ \A r \in RowsByKey(out.users, e.api_key) :
               /\ r.plan = "pro" /\ r.max_workers = 8
               /\ r.stripe_subscription_id = e.sub
         /\ {r \in out.users : r.api_key # e.api_key}
              = {r \in users : r.api_key # e.api_key}

\* the account is free under another subscription, next to a second account,
\* and the event makes it pro
C6_Witness ==
  \E e \in CheckoutCompleted :
    /\ \E r \in users :
          /\ r.api_key = e.api_key /\ r.plan = "free"
          /\ r.stripe_subscription_id \notin {NULL, e.sub}
    /\ Cardinality(users) = 2
    /\ \E r \in WebhookOut(e).users : r.api_key = e.api_key /\ r.plan = "pro"

\* C7 as stated: after an authentic customer.subscription.updated event for S,
\* every account holding S is pro/8 if the status is active and free/1 for
\* every other status.
C7_UpdatedElseFree ==
  \A e \in SubscriptionUpdated :
    \A r \in WebhookOut(e).users :
      r.stripe_subscription_id = e.sub =>
        IF e.status = "active"
          THEN r.plan = "pro" /\ r.max_workers = 8
          ELSE r.plan = "free" /\ r.max_workers = 1

\* C7 amended: every account holding S is pro/8 if the status is active and
\* free/1 if the status is canceled or unpaid; for any other status the event
\* changes no account.
C7_UpdatedActiveCanceledUnpaid ==
  \A e \in SubscriptionUpdated :
    LET out == WebhookOut(e)
    IN /\ \A r \in out.users :
            r.stripe_subscription_id = e.sub =>
              /\ e.status = "active" => (r.plan = "pro" /\ r.max_workers = 8)
              /\ e.status \in {"canceled", "unpaid"} => (r.plan = "free" /\ r.max_workers = 1)
       /\ e.status \notin {"active", "canceled", "unpaid"} => out.users = users

\* an unpaid status downgrades a pro account holding S
C7_Witness ==
  \E e \in SubscriptionUpdated :
    /\ e.status = "unpaid"
    /\ \E r \in users : r.stripe_subscription_id = e.sub /\ r.plan = "pro"
    /\ \E r \in WebhookOut(e).users : r.stripe_subscription_id = e.sub /\ r.plan = "free"

\* C8: verify of an account with a subscription whose reported status is not
\* active stores free/1 for the account and answers valid, free, 1.
C8_VerifyDowngrades ==
  \A c \in VerifyServed :
    LET out == VerifyOut(c)
    IN \A r \in c.found :
         (r.stripe_subscription_id # NULL /\ c.stripe \in Statuses \ {"active"}) =>
           /\ out.resp.status = 200 /\ out.resp.valid = "true"
           /\ out.resp.plan = "free" /\ out.resp.max_workers = 1
           /\ Account(out.users, r.email) # {}
           /\ \A r2 \in Account(out.users, r.email) :
                 r2.plan = "free" /\ r2.max_workers = 1

\* verify read a pro account with a subscription, the status is past_due, and
\* the account, stored pro, is stored free
C8_Witness ==
  \E c \in VerifyServed :
    \E r \in c.found :
      /\ r.stripe_subscription_id # NULL
      /\ c.stripe = "past_due" /\ r.plan = "pro" /\ r.max_workers = 8
      /\ VerifyOut(c).resp.plan = "free"
      /\ \E r2 \in Account(users, r.email) : r2.plan = "pro"
      /\ \E r2 \in Account(VerifyOut(c).users, r.email) : r2.plan = "free"

\* C9 as stated: when the status query of verify fails for an account with
\* a subscription, verify answers valid with the plan and max_workers stored
\* for the account when it answers (trial_expired/1 for an expired trial) and
\* changes no stored field.
C9_StripeFailureUsesStored ==
  \A c \in VerifyServed :
    LET out == VerifyOut(c)
    IN \A read \in c.found :
         (read.stripe_subscription_id # NULL /\ c.stripe = StripeError) =>
           /\ out.resp.status = 200 /\ out.resp.valid = "true"
           /\ out.users = users
           /\ \A r \in RowsByKey(users, c.api_key) :
                IF r.plan = "trial" /\ r.expires_at < now
                  THEN out.resp.plan = "trial_expired" /\ out.resp.max_workers = 1
                  ELSE out.resp.plan = r.plan /\ out.resp.max_workers = r.max_workers

\* C9 amended: when the status query of verify fails, verify answers valid
\* with the plan and max_workers of the row it read before the query
\* (trial_expired/1 for an expired trial) and changes no stored field; these
\* are the stored plan and max_workers when no step changed the row during
\* the query.
C9_StripeFailureUsesRowRead ==
  \A c \in VerifyServed :
    LET out == VerifyOut(c)
    IN \A read \in c.found :
         (read.stripe_subscription_id # NULL /\ c.stripe = StripeError) =>
           /\ out.resp.status = 200 /\ out.resp.valid = "true"
           /\ out.users = users
           /\ IF read.plan = "trial" /\ read.expires_at < now
                THEN out.resp.plan = "trial_expired" /\ out.resp.max_workers = 1
                ELSE out.resp.plan = read.plan /\ out.resp.max_workers = read.max_workers
           /\ c.found = verify_lookup(users, c.api_key) =>
                \A r \in RowsByKey(users, c.api_key) :
                  out.resp.plan = r.plan /\ out.resp.max_workers = r.max_workers

\* verify read a pro account; while it waited, an event made the account
\* free; the status query fails and verify answers pro/8, the row it read
C9_Witness ==
  \E c \in VerifyResumed :
    \E read \in c.found, r \in RowsByKey(users, c.api_key) :
      /\ read.stripe_subscription_id # NULL
      /\ c.stripe = StripeError
      /\ read.plan = "pro" /\ r.plan = "free"
      /\ VerifyOut(c).resp.plan = "pro" /\ VerifyOut(c).resp.max_workers = 8
      /\ VerifyOut(c).users = users

\* C10: the table never holds two accounts with one email or one api_key,
\* and no step removes an account.
UniqueAccounts ==
  \A r1, r2 \in users : (r1.email = r2.email \/ r1.api_key = r2.api_key) => r1 = r2

NoAccountDeleted == \A r \in users : Account(users', r.email) # {}

C10_UniqueAndNeverDeleted == []UniqueAccounts /\ [][NoAccountDeleted]_vars

\* a register for a new email whose generated key is already another
\* account's adds no row
C10_Witness ==
  \E c \in RegisterServed :
    /\ c.email \in Emails /\ c.customer # StripeError
    /\ Account(users, c.email) = {}
    /\ RowsByKey(users, c.token) # {}
    /\ RegisterOut(c).users = users

\* C12: verify, create-checkout and cancel answer a missing X-API-Key header,
\* or one that matches no account, with 401 and change no account.
Unauthorized(out) == out.resp.status = 401 /\ out.users = users

C12_AuthFailureIs401 ==
  /\ \A c \in VerifyServed :
       RowsByKey(users, c.api_key) = {} => Unauthorized(VerifyOut(c))
  /\ \A c \in CheckoutServed :
       RowsByKey(users, c.api_key) = {} => Unauthorized(CheckoutOut(c))
  /\ \A c \in CancelServed :
       RowsByKey(users, c.api_key) = {} => Unauthorized(CancelOut(c))

\* C13: a processor error raised during register, create-checkout or cancel
\* ends in a 500 response carrying the processor's message, and the table is
\* unchanged.
ProcessorErrorAnswer(out) ==
  out.resp.status = 500 /\ out.resp.error = StripeError /\ out.users = users

C13_ProcessorErrorIs500WithMessage ==
  /\ \A c \in RegisterServed :
       c.customer = StripeError => ProcessorErrorAnswer(RegisterOut(c))
  /\ \A c \in CheckoutServed :
       c.stripe = StripeError => ProcessorErrorAnswer(CheckoutOut(c))
  /\ \A c \in CancelServed :
       c.stripe = StripeError => ProcessorErrorAnswer(CancelOut(c))

\* C14: every verify response with valid=true carries the plan, max_workers
\* and the account's email.
C14_VerifyReturnsIdentity ==
  \A c \in VerifyServed :
    LET out == VerifyOut(c)
    IN out.resp.valid = "true" =>
         /\ out.resp.plan # None /\ out.resp.max_workers # 0
         /\ \A r \in RowsByKey(users, c.api_key) : out.resp.email = r.email

\* C15: in every state every account has max_workers 8 exactly when its
\* plan is pro, and max_workers 1 when its plan is trial or free.
C15_WorkersFollowPlan ==
  \A r \in users :
    /\ r.plan = "pro" <=> r.max_workers = 8
    /\ r.plan \in {"trial", "free"} => r.max_workers = 1

\* an active update turns a free account holding S back into pro/8
C15_Witness ==
  \E e \in SubscriptionUpdated :
    /\ e.status = "active"
    /\ \E r \in users :
          /\ r.stripe_subscription_id = e.sub /\ r.plan = "free" /\ r.max_workers = 1
          /\ \E r2 \in Account(WebhookOut(e).users, r.email) :
                r2.plan = "pro" /\ r2.max_workers = 8

\* C17: no step changes the email, api_key, stripe_customer_id or expires_at
\* of an existing account.
IdentityKept ==
  \A r \in users :
    /\ Account(users', r.email) # {}
    /\ \A r2 \in Account(users', r.email) :
          /\ r2.api_key = r.api_key
          /\ r2.stripe_customer_id = r.stripe_customer_id
          /\ r2.expires_at = r.expires_at

C17_IdentityFieldsImmutable == [][IdentityKept]_vars

\* a register of an existing email, for which Customer.create returned
\* another customer id than the stored one and line 59 computed another
\* expiry, leaves the account as it is
C17_Witness ==
  \E c \in RegisterServed :
    \E r \in Account(users, c.email) :
      /\ c.customer \notin {StripeError, r.stripe_customer_id}
      /\ c.token # r.api_key
      /\ c.expires # r.expires_at
      /\ RegisterOut(c).resp.flag = "existing_user"
      /\ RegisterOut(c).users = users

\* C18: the stored plan is always trial, free or pro; it is trial only while
\* the subscription id is null; a plan that has left trial never returns to it.
StoredPlanOK ==
  \A r \in users :
    /\ r.plan \in {"trial", "free", "pro"}
    /\ r.plan = "trial" => r.stripe_subscription_id = NULL

TrialNotRestored ==
  \A r \in users :
    r.plan # "trial" => \A r2 \in Account(users', r.email) : r2.plan # "trial"

C18_StoredPlanLifecycle == []StoredPlanOK /\ [][TrialNotRestored]_vars

\* verify reports trial_expired for one account while another account, which
\* has left trial, is free without a subscription
C18_Witness ==
  \E c \in VerifyServed :
    /\ VerifyOut(c).resp.plan = "trial_expired"
    /\ \E r \in users : r.api_key = c.api_key /\ r.plan = "trial"
    /\ \E r \in users : r.plan = "free" /\ r.stripe_subscription_id = NULL

\* C19: create-checkout, cancel, stats and health leave the table unchanged,
\* whatever their outcome.
C19_ReadOnlyEndpoints ==
  /\ \A c \in CheckoutServed : CheckoutOut(c).users = users
  /\ \A c \in CancelServed : CancelOut(c).users = users
  /\ admin_stats(users).users = users
  /\ health(users).users = users

\* a cancel held while a subscription.deleted event cleared the subscription
\* it read is answered 200, and the account stays free
C19_Witness ==
  \E c \in CancelResumed :
    /\ c.stripe = "ok" /\ CancelOut(c).resp.status = 200
    /\ \E r \in users :
          /\ r.api_key = c.api_key /\ r.plan = "free"
          /\ r.stripe_subscription_id = NULL
    /\ CancelOut(c).users = users

\* C11: delivering again an authentic event that was already processed leaves
\* every account's plan, max_workers and subscription id as they were before
\* the redelivery.
Redelivery ==
  [sig |-> TRUE, type |-> seen.event.type, api_key |-> seen.event.api_key,
   sub |-> seen.event.sub, status |-> seen.event.status]

Entitlements(u) ==
  {[email |-> r.email, plan |-> r.plan, max_workers |-> r.max_workers,
    stripe_subscription_id |-> r.stripe_subscription_id] : r \in u}

C11_RedeliveryChangesNothing ==
  seen.n >= 1 => Entitlements(WebhookOut(Redelivery).users) = Entitlements(users)

\* C16: verify never writes free/1 over a pro account whose subscription, set
\* by a checkout-completed event after verify's read, is another one than the
\* subscription verify checked.
C16_NoLostUpgrade ==
  \A c \in VerifyServed :
    LET out == VerifyOut(c)
    IN ~ /\ out.resp.flag = "subscription_expired"
         /\ \E old \in RowsByKey(users, c.api_key), read \in c.found :
               /\ old.plan = "pro"
               /\ old.stripe_subscription_id # NULL
               /\ old.stripe_subscription_id # read.stripe_subscription_id
         /\ \A r \in RowsByKey(out.users, c.api_key) :
               r.plan = "free" /\ r.max_workers = 1
====
